---------------------------- MODULE Spec2Model ----------------------------
(***************************************************************************)
(* Model of cdj350battler.py: the Cdj350Battler export pipeline.           *)
(*                                                                         *)
(*   - to_romaji            : phonetic step + sanitisation of a text       *)
(*   - new_filename         : "{padded_num}_{romaji}{suffix}"              *)
(*   - prepare_output_directory, get_playlist_by_name, export_playlist     *)
(*                                                                         *)
(* A text is a sequence of one-character strings.  Characters outside      *)
(* ASCII are written by their code point: "U00E9" (e acute), "U266A" (an   *)
(* eighth note), "U3088" (hiragana yo), "U66F2" (the kanji kyoku).         *)
(***************************************************************************)
EXTENDS Integers, Sequences, FiniteSets

VARIABLES
    pc,             \* position in export_playlist / stage of a pure specification
    run,            \* number of the current invocation of `export`
    playlist_name,  \* the --playlist argument
    catalog,        \* the playlists of the Rekordbox database, in catalog order
    present,        \* the source paths that exist on the filesystem
    dirs,           \* the directories that exist under (and including) output_dir
    music,          \* the files of output_dir/MUSIC: filename -> content
    tracks,         \* export_playlist's local `tracks`
    i,              \* export_playlist's loop index
    log,            \* the records emitted through `logger` by the current run
    outcome,        \* observer: what happened to each track of the current run
    dirs0,          \* observer: `dirs` when the current run started
    music0,         \* observer: `music` when the current run started
    prev,           \* observer: how the previous run ended (pc, music, outcome)
    text,           \* to_romaji's argument (pure specifications)
    romaji,         \* to_romaji's result (pure specifications)
    position,       \* a zero-based playlist position (Namer specification)
    src_path,       \* the track path at that position (Namer specification)
    new_name        \* the filename generated for it (Namer specification)

vars == <<pc, run, playlist_name, catalog, present, dirs, music, tracks, i, log,
          outcome, dirs0, music0, prev, text, romaji, position, src_path,
          new_name>>

exportVars == <<run, playlist_name, catalog, present, dirs, music, tracks, i, log,
                outcome, dirs0, music0, prev>>
romajiVars == <<text, romaji>>
namerVars  == <<position, src_path, new_name>>

-----------------------------------------------------------------------------
(* Bounds of the model *)

MaxLen    == 3      \* longest text given to to_romaji in SpecRomaji
MaxPos    == 1100   \* largest playlist position named in SpecNamer
MaxTracks == 3      \* longest playlist in Spec
MaxRuns   == 2      \* invocations of `export` in a row in Spec

-----------------------------------------------------------------------------
(* Characters *)

Digits == <<"0", "1", "2", "3", "4", "5", "6", "7", "8", "9">>

\* The characters of the model in code point order.
CodeOrder ==
    <<" ", "!", "-", ".">> \o Digits \o
    <<"A", "B", "S", "_", "a", "b", "g", "k", "m", "n", "o", "p", "u", "v",
      "w", "y", "U00E9", "U266A", "U3088", "U66F2">>

Chars == {CodeOrder[k] : k \in 1..Len(CodeOrder)}

ord(c) == CHOOSE k \in 1..Len(CodeOrder) : CodeOrder[k] = c

AsciiLetters ==
    {"A", "B", "S", "a", "b", "g", "k", "m", "n", "o", "p", "u", "v", "w", "y"}
AsciiDigits  == {Digits[k] : k \in 1..Len(Digits)}

\* The characters the specified output alphabet [A-Za-z0-9_.-] allows.
SafeChars == AsciiLetters \cup AsciiDigits \cup {"_", ".", "-"}

\* str.isalnum(): true of every Unicode letter and digit, ASCII or not.
isalnum(c) == c \in AsciiLetters \cup AsciiDigits \cup {"U00E9", "U3088", "U66F2"}

\* Python's str comparison: lexicographic by code point.
RECURSIVE StrLess(_, _)
StrLess(s, t) ==
    IF t = <<>> THEN FALSE
    ELSE IF s = <<>> THEN TRUE
    ELSE IF Head(s) = Head(t) THEN StrLess(Tail(s), Tail(t))
    ELSE ord(Head(s)) < ord(Head(t))

-----------------------------------------------------------------------------
(* to_romaji *)

\* item['hepburn'] of kakasi.convert: kana and kanji are rendered in Latin
\* letters, every other character is passed through unchanged.
hepburn(c) ==
    CASE c = "U3088" -> <<"y", "o">>
      [] c = "U66F2" -> <<"k", "y", "o", "k", "u">>
      [] OTHER       -> <<c>>

\* "".join([item['hepburn'] for item in result])
RECURSIVE convert(_)
convert(s) == IF s = <<>> THEN <<>> ELSE hepburn(Head(s)) \o convert(Tail(s))

\* romaji.replace(" ", "_")
replace_space(s) == [k \in 1..Len(s) |-> IF s[k] = " " THEN "_" ELSE s[k]]

\* "".join(c if c.isalnum() or c in '_-.' else '_' for c in romaji)
sanitize(s) ==
    [k \in 1..Len(s) |->
        IF isalnum(s[k]) \/ s[k] \in {"_", "-", "."} THEN s[k] ELSE "_"]

to_romaji(s) == sanitize(replace_space(convert(s)))

-----------------------------------------------------------------------------
(* The generated filename *)

PadWidth == 3       \* str(i+1).zfill(3)

\* str(n) for n >= 0
RECURSIVE str(_)
str(n) == IF n < 10 THEN <<Digits[n + 1]>> ELSE str(n \div 10) \o <<Digits[(n % 10) + 1]>>

\* s.zfill(width): zeros on the left up to `width`, never a truncation
RECURSIVE zfill(_, _)
zfill(s, width) == IF Len(s) >= width THEN s ELSE zfill(<<"0">> \o s, width)

\* Mutant: the number without its padding.
padded_num_unpadded(idx) == str(idx + 1)

\* padded_num = str(i+1).zfill(3)
padded_num(idx) == zfill(str(idx + 1), PadWidth)

\* Mutant: the number and the stem joined without the "_" between them.
new_filename_unseparated(idx, path) ==
    zfill(str(idx + 1), PadWidth) \o to_romaji(path.stem) \o path.suffix

\* A path is its stem and its suffix (Path.stem, Path.suffix).
\* new_filename = f"{padded_num}_{romaji_filename}{src_path.suffix}"
new_filename(idx, path) ==
    padded_num(idx) \o <<"_">> \o to_romaji(path.stem) \o path.suffix

-----------------------------------------------------------------------------
(* Values the variables of the other specifications keep *)

\* A directory without files.
EmptyFiles == [n \in {} |-> "old"]

NoPrev == [pc |-> "none", music |-> EmptyFiles, outcome |-> <<>>]

ExportIdle ==
    /\ run = 0 /\ playlist_name = "" /\ catalog = <<>> /\ present = {}
    /\ dirs = {} /\ music = EmptyFiles /\ tracks = <<>> /\ i = 0 /\ log = <<>>
    /\ outcome = <<>> /\ dirs0 = {} /\ music0 = EmptyFiles /\ prev = NoPrev

RomajiIdle == text = <<>> /\ romaji = <<>>

NamerIdle == position = 0 /\ src_path = [stem |-> <<>>, suffix |-> <<>>] /\ new_name = <<>>

-----------------------------------------------------------------------------
(* SpecRomaji: to_romaji applied to every text of up to MaxLen characters *)

InputChars ==
    {"a", "S", "0", " ", "_", "-", ".", "!", "U00E9", "U266A", "U3088", "U66F2"}

Texts == UNION {[1..n -> InputChars] : n \in 0..MaxLen}

RomajiInit ==
    /\ pc = "input" /\ text \in Texts /\ romaji = <<>>
    /\ ExportIdle /\ NamerIdle

Romanize ==
    /\ pc = "input"
    /\ romaji' = to_romaji(text)
    /\ pc' = "output"
    /\ UNCHANGED <<text, exportVars, namerVars>>

SpecRomaji == RomajiInit /\ [][Romanize]_vars

-----------------------------------------------------------------------------
(* SpecNamer: new_filename applied to every position up to MaxPos *)

NamerPaths ==
    { [stem |-> <<"a">>,             suffix |-> <<".", "m", "p", "3">>],
      [stem |-> <<"0", "a">>,        suffix |-> <<".", "m", "p", "3">>],
      [stem |-> <<"U66F2", "A">>,    suffix |-> <<".", "w", "a", "v">>],
      [stem |-> <<"9", "_", "b">>,   suffix |-> <<>>] }

NamerInit ==
    /\ pc = "input" /\ position \in 0..MaxPos /\ src_path \in NamerPaths
    /\ new_name = <<>>
    /\ ExportIdle /\ RomajiIdle

MakeFilename ==
    /\ pc = "input"
    /\ new_name' = new_filename(position, src_path)
    /\ pc' = "output"
    /\ UNCHANGED <<position, src_path, exportVars, romajiVars>>

SpecNamer == NamerInit /\ [][MakeFilename]_vars

\* The filename of every position and path, as new_filename gives it.
NameTable == [j \in 0..MaxPos |-> [p \in NamerPaths |-> new_filename(j, p)]]

-----------------------------------------------------------------------------
(* The catalog and the filesystem of Spec *)

\* Source paths of the tracks of the catalog (track.file_path).
PathA == [stem |-> <<"U66F2", "A">>,                suffix |-> <<".", "m", "p", "3">>]
PathM == [stem |-> <<"a", "U266A">>,                suffix |-> <<".", "m", "p", "3">>]
PathB == [stem |-> <<"S", "o", "n", "g", " ", "B">>, suffix |-> <<".", "w", "a", "v">>]

TrackIds == {"tA", "tM", "tB"}

\* rekordbox_db.get_track(track_id).file_path
file_path(track_id) ==
    CASE track_id = "tA" -> PathA
      [] track_id = "tM" -> PathM
      [] track_id = "tB" -> PathB

Playlists == UNION {[1..n -> TrackIds] : n \in 0..MaxTracks}

Catalogs ==
    { << [name |-> "Friday Set", id |-> 1, entries |-> e],
         [name |-> "Other",      id |-> 2, entries |-> <<"tB">>] >> : e \in Playlists }

\* The directories of the destination; each one's parent precedes it.
ScaffoldDirs == {"output_dir", "PIONEER", "CONTENTS", "MUSIC"}

parent(d) ==
    CASE d = "PIONEER"  -> "output_dir"
      [] d = "CONTENTS" -> "PIONEER"
      [] d = "MUSIC"    -> "output_dir"
      [] OTHER          -> d

DirStates == {D \in SUBSET ScaffoldDirs : \A d \in D : parent(d) \in D}

\* Files a destination may hold before the first run: one named like a
\* generated file and one foreign file.
StaleFiles ==
    [n \in {new_filename(0, PathA), <<"b", ".", "m", "p", "3">>} |-> "old"]

-----------------------------------------------------------------------------
(* Helpers of the export *)

\* get_playlist_by_name: the first playlist of that exact name, as a
\* sequence of one element, or <<>> for None.
get_playlist_by_name(name) ==
    LET hits == {k \in 1..Len(catalog) : catalog[k].name = name}
    IN  IF hits = {} THEN <<>>
        ELSE <<catalog[CHOOSE k \in hits : \A m \in hits : k <= m]>>

\* `if not d.exists(): d.mkdir()`
mkdir_if_missing(D, d) == IF d \in D THEN D ELSE D \cup {d}

\* The directories after prepare_output_directory, in its order of creation.
made_dirs(D) ==
    mkdir_if_missing(
        mkdir_if_missing(
            mkdir_if_missing(
                mkdir_if_missing(D, "output_dir"), "PIONEER"), "CONTENTS"), "MUSIC")

\* Mutant: the existing file is kept and the copy gets another name.
dst_path_deduplicated(idx, path) ==
    IF new_filename(idx, path) \in DOMAIN music
    THEN new_filename(idx, path) \o <<"_", "1">>
    ELSE new_filename(idx, path)

\* dst_path = music_dir / new_filename
dst_path(idx, path) == new_filename(idx, path)

\* The files of MUSIC after `name` was written with `content`.
written(files, name, content) ==
    [n \in DOMAIN files \cup {name} |-> IF n = name THEN content ELSE files[n]]

Logged(level, event, n) == Append(log, [level |-> level, event |-> event, n |-> n])

-----------------------------------------------------------------------------
(* Spec: runs of export_playlist *)

Init ==
    /\ pc = "start"
    /\ run = 1
    /\ playlist_name \in {"Friday Set", "friday set"}
    /\ catalog \in Catalogs
    /\ present = {"tA", "tB"}
    /\ dirs \in DirStates
    /\ music \in IF "MUSIC" \in dirs THEN {EmptyFiles, StaleFiles} ELSE {EmptyFiles}
    /\ tracks = <<>>
    /\ i = 0
    /\ log = <<>>
    /\ outcome = <<>>
    /\ dirs0 = dirs
    /\ music0 = music
    /\ prev = NoPrev
    /\ RomajiIdle /\ NamerIdle

\* connect_to_rekordbox succeeds
Connect ==
    /\ pc = "start"
    /\ pc' = "connected"
    /\ log' = Logged("INFO", "connected", 0)
    /\ UNCHANGED <<run, playlist_name, catalog, present, dirs, music, tracks, i,
                   outcome, dirs0, music0, prev, romajiVars, namerVars>>

\* connect_to_rekordbox fails: the error is logged and sys.exit(1) ends the run
ConnectFails ==
    /\ pc = "start"
    /\ pc' = "fatal"
    /\ log' = Logged("ERROR", "connect_failed", 0)
    /\ UNCHANGED <<run, playlist_name, catalog, present, dirs, music, tracks, i,
                   outcome, dirs0, music0, prev, romajiVars, namerVars>>

\* Mutant: MUSIC is removed and created again.
PrepareOutputDirectory_Recreates ==
    /\ pc = "connected"
    /\ dirs' = made_dirs(dirs)
    /\ music' = EmptyFiles
    /\ pc' = "scaffolded"
    /\ UNCHANGED <<run, playlist_name, catalog, present, tracks, i, log,
                   outcome, dirs0, music0, prev, romajiVars, namerVars>>

\* prepare_output_directory
PrepareOutputDirectory ==
    /\ pc = "connected"
    /\ dirs' = made_dirs(dirs)
    /\ pc' = "scaffolded"
    /\ UNCHANGED <<run, playlist_name, catalog, present, music, tracks, i, log,
                   outcome, dirs0, music0, prev, romajiVars, namerVars>>

\* Mutant: a name that matches nothing falls back to the first playlist.
PlaylistNotFound_FallsBack ==
    /\ pc = "scaffolded"
    /\ get_playlist_by_name(playlist_name) = <<>>
    /\ tracks' = catalog[1].entries
    /\ i' = 0
    /\ log' = Logged("INFO", "export_start", 0)
    /\ pc' = "loop"
    /\ UNCHANGED <<run, playlist_name, catalog, present, dirs, music,
                   outcome, dirs0, music0, prev, romajiVars, namerVars>>

\* get_playlist_by_name returned None: the error is logged and the run returns
PlaylistNotFound ==
    /\ pc = "scaffolded"
    /\ get_playlist_by_name(playlist_name) = <<>>
    /\ log' = Logged("ERROR", "playlist_not_found", 0)
    /\ pc' = "notfound"
    /\ UNCHANGED <<run, playlist_name, catalog, present, dirs, music, tracks, i,
                   outcome, dirs0, music0, prev, romajiVars, namerVars>>

\* The playlist was found: its entries are resolved to tracks, in order
ResolveTracks ==
    /\ pc = "scaffolded"
    /\ get_playlist_by_name(playlist_name) # <<>>
    /\ tracks' = get_playlist_by_name(playlist_name)[1].entries
    /\ i' = 0
    /\ log' = Logged("INFO", "export_start", 0)
    /\ pc' = "loop"
    /\ UNCHANGED <<run, playlist_name, catalog, present, dirs, music,
                   outcome, dirs0, music0, prev, romajiVars, namerVars>>

\* Mutant: a missing source raises and ends the run.
SkipMissing_Raises ==
    /\ pc = "loop" /\ i < Len(tracks)
    /\ tracks[i + 1] \notin present
    /\ log' = Logged("ERROR", "file_not_found", i)
    /\ pc' = "crashed"
    /\ UNCHANGED <<run, playlist_name, catalog, present, dirs, music, tracks, i,
                   outcome, dirs0, music0, prev, romajiVars, namerVars>>

\* The source of track i does not exist: a warning, and `continue`
SkipMissing ==
    /\ pc = "loop" /\ i < Len(tracks)
    /\ tracks[i + 1] \notin present
    /\ log' = Logged("WARNING", "file_not_found", i)
    /\ outcome' = Append(outcome, "skipped")
    /\ i' = i + 1
    /\ UNCHANGED <<pc, run, playlist_name, catalog, present, dirs, music, tracks,
                   dirs0, music0, prev, romajiVars, namerVars>>

\* Mutant: the files copied so far are numbered, not the playlist positions.
CopyTrack_NumbersCopies ==
    /\ pc = "loop" /\ i < Len(tracks)
    /\ tracks[i + 1] \in present
    /\ music' = written(music,
                        dst_path(Cardinality({k \in 1..Len(outcome) : outcome[k] = "copied"}),
                                 file_path(tracks[i + 1])),
                        tracks[i + 1])
    /\ outcome' = Append(outcome, "copied")
    /\ i' = i + 1
    /\ UNCHANGED <<pc, run, playlist_name, catalog, present, dirs, tracks, log,
                   dirs0, music0, prev, romajiVars, namerVars>>

\* shutil.copy2 copies the source of track i to MUSIC/new_filename
CopyTrack ==
    /\ pc = "loop" /\ i < Len(tracks)
    /\ tracks[i + 1] \in present
    /\ music' = written(music, dst_path(i, file_path(tracks[i + 1])), tracks[i + 1])
    /\ outcome' = Append(outcome, "copied")
    /\ i' = i + 1
    /\ UNCHANGED <<pc, run, playlist_name, catalog, present, dirs, tracks, log,
                   dirs0, music0, prev, romajiVars, namerVars>>

\* Mutant: the exception of a failed copy is not caught and ends the run.
CopyFails_Aborts ==
    /\ pc = "loop" /\ i < Len(tracks)
    /\ tracks[i + 1] \in present
    /\ \E partial \in BOOLEAN :
          music' = IF partial
                   THEN written(music, dst_path(i, file_path(tracks[i + 1])), "partial")
                   ELSE music
    /\ outcome' = Append(outcome, "failed")
    /\ pc' = "crashed"
    /\ UNCHANGED <<run, playlist_name, catalog, present, dirs, tracks, i, log,
                   dirs0, music0, prev, romajiVars, namerVars>>

\* shutil.copy2 raises: the destination is left as it was or is left partly
\* written; the error is logged and the loop goes on
CopyFails ==
    /\ pc = "loop" /\ i < Len(tracks)
    /\ tracks[i + 1] \in present
    /\ \E partial \in BOOLEAN :
          music' = IF partial
                   THEN written(music, dst_path(i, file_path(tracks[i + 1])), "partial")
                   ELSE music
    /\ log' = Logged("ERROR", "copy_failed", i)
    /\ outcome' = Append(outcome, "failed")
    /\ i' = i + 1
    /\ UNCHANGED <<pc, run, playlist_name, catalog, present, dirs, tracks,
                   dirs0, music0, prev, romajiVars, namerVars>>

\* logger.info(f"... {len(tracks)} ...") after the loop
ExportDone ==
    /\ pc = "loop" /\ i = Len(tracks)
    /\ log' = Logged("INFO", "export_done", Len(tracks))
    /\ pc' = "done"
    /\ UNCHANGED <<run, playlist_name, catalog, present, dirs, music, tracks, i,
                   outcome, dirs0, music0, prev, romajiVars, namerVars>>

\* The operator invokes the same export again, on the same catalog, source
\* files and destination.
Rerun ==
    /\ pc \in {"done", "notfound", "fatal"}
    /\ run < MaxRuns
    /\ prev' = [pc |-> pc, music |-> music, outcome |-> outcome]
    /\ run' = run + 1
    /\ pc' = "start"
    /\ tracks' = <<>> /\ i' = 0 /\ log' = <<>> /\ outcome' = <<>>
    /\ dirs0' = dirs /\ music0' = music
    /\ UNCHANGED <<playlist_name, catalog, present, dirs, music, romajiVars, namerVars>>

\* The steps of one run of export_playlist.
Step ==
    \/ Connect \/ ConnectFails
    \/ PrepareOutputDirectory
    \/ PlaylistNotFound \/ ResolveTracks
    \/ SkipMissing \/ CopyTrack \/ CopyFails
    \/ ExportDone

Next == Step \/ Rerun

Spec == Init /\ [][Next]_vars

\* One run of export_playlist, into a new destination or into a complete one
\* that holds files (no step's guard reads the destination). It is sequential
\* code: a run that can take a step takes it.
FairInit ==
    /\ Init
    /\ \/ dirs = {}
       \/ dirs = ScaffoldDirs /\ music = StaleFiles

FairSpec == FairInit /\ [][Step]_vars /\ WF_vars(Step)

-----------------------------------------------------------------------------
(* Claims about to_romaji and new_filename *)

\* C1: for every input text, the output of to_romaji contains only characters
\* of [A-Za-z0-9_.-].
C1_OutputIsSafe ==
    pc = "output" => \A k \in 1..Len(romaji) : romaji[k] \in SafeChars

RECURSIVE Pow10(_)
Pow10(n) == IF n = 0 THEN 1 ELSE 10 * Pow10(n - 1)

\* The last position whose number still fits the pad width: 998.
MaxOrderedPos == Pow10(PadWidth) - 2

Min(a, b) == IF a <= b THEN a ELSE b

\* C3: for all positions i < j in 0..998 and any stems and suffixes, the
\* filename of position i sorts strictly before the filename of position j.
C3_OrderPreserved ==
    (pc = "output" /\ position <= MaxOrderedPos) =>
        \A j \in (position + 1)..Min(MaxOrderedPos, MaxPos) : \A p \in NamerPaths :
            StrLess(new_name, NameTable[j][p])

\* Position 8 ("009_...") with the stem that sorts last, against position 9
\* ("010_...") with a stem that sorts first.
C3_Witness ==
    /\ pc = "output" /\ position = 8 /\ src_path.stem = <<"a">>
    /\ \E p \in NamerPaths :
          /\ StrLess(to_romaji(p.stem), to_romaji(src_path.stem))
          /\ StrLess(new_name, NameTable[9][p])

\* C7: two different positions never receive the same filename, whatever
\* their stems and suffixes, also where the numeric field widens (>= 999).
C7_NamesDistinct ==
    pc = "output" =>
        \A j \in 0..MaxPos : \A p \in NamerPaths :
            j # position => new_name # NameTable[j][p]

\* Position 999 ("1000_a.mp3"), the first with a four-digit field, beside
\* position 99 with the stem "0a" ("100_0a.mp3") and position 0 with its own
\* stem.
C7_Witness ==
    /\ pc = "output" /\ position = 999 /\ src_path.stem = <<"a">>
    /\ Len(padded_num(position)) = PadWidth + 1
    /\ \E p \in NamerPaths : p.stem = <<"0", "a">> /\ new_name # NameTable[99][p]
    /\ new_name # NameTable[0][src_path]

-----------------------------------------------------------------------------
(* Claims about export_playlist *)

Last(s) == s[Len(s)]

HasSummary == log # <<>> /\ Last(log).event = "export_done"

Indices(seq, v) == {k \in 1..Len(seq) : seq[k] = v}

\* The playlist name matches no playlist of the catalog.
NoMatch == \A k \in 1..Len(catalog) : catalog[k].name # playlist_name

DigitValue(c) == CHOOSE d \in 0..9 : Digits[d + 1] = c

\* The number written by the leading digits of a filename (0 without any).
RECURSIVE LeadingNumber(_, _)
LeadingNumber(name, acc) ==
    IF name = <<>> \/ Head(name) \notin AsciiDigits THEN acc
    ELSE LeadingNumber(Tail(name), 10 * acc + DigitValue(Head(name)))

Ordinal(name) == LeadingNumber(name, 0)

\* C2: a playlist of N tracks of which M have no source file, exported
\* without a copy failure into an empty MUSIC, ends with a summary that
\* reports N-M copies and with N-M files in MUSIC.
C2_SummaryCountsCopies ==
    (pc = "done" /\ music0 = EmptyFiles /\ Indices(outcome, "failed") = {}) =>
        LET N == Len(tracks)
            M == Cardinality(Indices(outcome, "skipped"))
        IN  /\ HasSummary
            /\ Last(log).n = N - M
            /\ Cardinality(DOMAIN music) = N - M

\* C4: when the playlist name matches no playlist, the run reports not-found
\* and stops; nothing is copied and only the scaffolding changed the
\* filesystem.
C4_NotFoundCopiesNothing ==
    (NoMatch /\ pc \notin {"start", "connected", "scaffolded", "fatal"}) =>
        /\ pc = "notfound"
        /\ Last(log) = [level |-> "ERROR", event |-> "playlist_not_found", n |-> 0]
        /\ music = music0
        /\ dirs = dirs0 \cup ScaffoldDirs
        /\ tracks = <<>> /\ outcome = <<>>

\* A not-found run into a destination that had MUSIC with files in it and
\* no PIONEER directory.
C4_Witness ==
    /\ pc = "notfound" /\ NoMatch
    /\ "PIONEER" \notin dirs0 /\ "PIONEER" \in dirs
    /\ music0 = StaleFiles /\ music = StaleFiles

\* C5: after the copy of a track failed, every later track is still
\* processed and the run reaches its completion step.
C5_FailureDoesNotAbort ==
    (Indices(outcome, "failed") # {})
        ~> (pc = "done" /\ Len(outcome) = Len(tracks) /\ Indices(outcome, "failed") # {})

\* The first copy failed, the second track was copied, the third skipped.
C5_Witness ==
    /\ pc = "done" /\ Len(tracks) = 3
    /\ outcome = <<"failed", "copied", "skipped">>

C8_SummaryUnlessFatal ==
    pc \in {"done", "notfound"} => HasSummary

\* C8 as amended: every run eventually ends in the connection failure, in
\* not-found, or in completion with the summary logged.
C8_SummaryWhenFound ==
    (pc = "start")
        ~> (pc \in {"fatal", "notfound"} \/ (pc = "done" /\ HasSummary))

\* A completed run with a skipped and a failed track.
C8_Witness ==
    /\ pc = "done" /\ HasSummary
    /\ Indices(outcome, "skipped") # {} /\ Indices(outcome, "failed") # {}

\* The files of MUSIC a step creates or rewrites.
Touched ==
    {n \in DOMAIN music' : n \notin DOMAIN music \/ music'[n] # music[n]}

\* C9: tracks are processed in playlist order; a copied file carries the
\* ordinal position + 1 however many earlier tracks were skipped or failed;
\* a skipped track creates no file and leaves its ordinal unused.
C9_OrdinalIsPosition ==
    /\ [][ (pc = "loop" /\ outcome' # outcome) =>
             /\ i' = i + 1 /\ Len(outcome') = i + 1 /\ tracks' = tracks
             /\ \A n \in Touched : Ordinal(n) = i + 1
             /\ tracks[i + 1] \notin present =>
                    (music' = music /\ outcome'[i + 1] = "skipped")
             /\ outcome'[i + 1] = "copied" =>
                    \E n \in DOMAIN music' :
                        Ordinal(n) = i + 1 /\ music'[n] = tracks[i + 1] ]_vars
    /\ [](\A k \in Indices(outcome, "skipped") : \A n \in DOMAIN music :
             Ordinal(n) = k => (n \in DOMAIN music0 /\ music[n] = music0[n]))

\* [present, missing, present]: 001_kyokuA.mp3 and 003_Song_B.wav, no 002_*.
C9_Witness ==
    /\ pc = "done" /\ music0 = EmptyFiles
    /\ tracks = <<"tA", "tM", "tB">>
    /\ outcome = <<"copied", "skipped", "copied">>
    /\ DOMAIN music =
         { <<"0", "0", "1", "_", "k", "y", "o", "k", "u", "A", ".", "m", "p", "3">>,
           <<"0", "0", "3", "_", "S", "o", "n", "g", "_", "B", ".", "w", "a", "v">> }

\* C10: after prepare_output_directory the destination root, the metadata
\* subtree and MUSIC exist; what existed before, and every file in it, is
\* unchanged; a second scaffolding changes nothing.
C10_ScaffoldingIdempotent ==
    [][ (pc = "connected" /\ pc' = "scaffolded") =>
          /\ ScaffoldDirs \subseteq dirs'
          /\ dirs \subseteq dirs'
          /\ music' = music
          /\ made_dirs(dirs') = dirs'
          /\ (run > 1 /\ prev.pc # "fatal") => dirs' = dirs ]_vars

\* The second scaffolding of a destination whose MUSIC held files before the
\* first.
C10_Witness ==
    /\ pc = "scaffolded" /\ run = 2 /\ prev.pc = "done"
    /\ dirs = ScaffoldDirs
    /\ <<"b", ".", "m", "p", "3">> \in DOMAIN music

=============================================================================
